---- MODULE Spec2Model ----
(***************************************************************************)
(* Model of drivers/net/wireless/st/cw1200/besdbg.c, the BES2600 SDIO      *)
(* debug driver: the ioctl dispatcher (besdbg_ioctl), the single-byte      *)
(* register codec (bes2600_sdio_reg_read / bes2600_sdio_reg_write) and     *)
(* the attach / detach handlers (besdbg_probe / besdbg_disconnect).        *)
(*                                                                         *)
(* Threads: the client threads issue ioctls on an open file of the         *)
(* character device; the hotplug thread "hp" runs probe and disconnect.    *)
(* Every step of a handler that other threads can observe (a bus           *)
(* primitive, a host claim or release, a wake-line write, a sleep, an      *)
(* allocation, a copy across the user boundary) is one action.             *)
(*                                                                         *)
(* trace[t] is a history variable: the steps of the call thread t is in    *)
(* (or has last returned from), in program order.                          *)
(*                                                                         *)
(* Spec runs two clients against probe and disconnect, with short          *)
(* requests.  SeqSpec runs one client on an attached device with the       *)
(* whole enumeration of request lengths, the limits included.  LiveSpec    *)
(* runs a data client, a reset client and disconnect under fairness.       *)
(***************************************************************************)
EXTENDS Integers, Sequences, FiniteSets, TLC

\* ---------------------------------------------------------------- bounds
\* Largest length of a transfer that is carried out byte by byte, besides
\* the lengths at the limits of the length checks.
MaxLen == 2

\* ------------------------------------------------------ program constants
REG_READ_MAX == 32
REG_WRITE_MAX == 64 * 1024
MEM_READ_MAX == 1024 * 64
MEM_WRITE_MAX == 64 * 1024

Clients == {"c1", "c2"}
SeqClients == {"c1"}
HP == "hp"
Threads == Clients \cup {HP}

NULL == "NULL"
UPTR == "uptr"

DataCmds == {"REG_READ", "REG_WRITE", "MEM_READ", "MEM_WRITE"}
Cmds == DataCmds \cup {"RESET", "OTHER"}
ReadCmds == {"REG_READ", "MEM_READ"}
WriteCmds == {"REG_WRITE", "MEM_WRITE"}
RegCmds == {"REG_READ", "REG_WRITE"}
MemCmds == {"MEM_READ", "MEM_WRITE"}

\* Addresses the clients ask for (0x10 and 0x1000).
Addrs == {16, 4096}

\* The length limit each case of the switch compares r.len with.
LenLimit(c) ==
    CASE c = "REG_READ" -> REG_READ_MAX
      [] c = "REG_WRITE" -> REG_WRITE_MAX
      [] c = "MEM_READ" -> MEM_READ_MAX
      [] c = "MEM_WRITE" -> MEM_WRITE_MAX

\* Lengths the single client of SeqSpec asks for: 0, the short lengths, the
\* limit and one past it.  A REG_WRITE of exactly 64 KiB (65536 single-byte
\* steps) is left out of the enumeration.
WideLens(c) ==
    (0 .. MaxLen) \cup {LenLimit(c) + 1}
        \cup (IF c = "REG_WRITE" THEN {} ELSE {LenLimit(c)})
\* Lengths the concurrent clients of Spec ask for.
NarrowLens(c) == {0, MaxLen}

\* struct besdbg_data as the client filled it in; mapped tells whether argp
\* points to readable memory.
Unmapped == [reg |-> 0, len |-> 0, data |-> NULL, mapped |-> FALSE]
NoReq == [reg |-> 0, len |-> 0, data |-> NULL, mapped |-> TRUE]
\* The argument records of a data command.
WideArgs(c) ==
    {Unmapped} \cup [reg : Addrs, len : WideLens(c), data : {NULL, UPTR},
                     mapped : {TRUE}]
NarrowArgs(c) ==
    [reg : {16}, len : NarrowLens(c), data : {UPTR}, mapped : {TRUE}]

\* Contents of the device behind the bus: the byte register a reads as.
DevByte(a) == ((a % 256) * 17 + 154) % 256
\* Payload bytes in the client's buffer.
UserByte(i) == (17 * i + 3) % 256

BusErr == "EIO"

BusOps == {"sdio_readb", "sdio_writeb", "sdio_memcpy_fromio",
           "sdio_memcpy_toio", "mmc_hw_reset", "sdio_enable_func",
           "sdio_disable_func"}

VARIABLES
    pc,          \* position of each thread
    cmd,         \* ioctl command of each client's call
    arg,         \* argp: the client's struct besdbg_data, or Unmapped
    r,           \* the kernel copy of the request
    data,        \* bytes of the staging buffer (register kinds)
    alloc,       \* the staging buffer of the thread's latest call is live
    reg,         \* register codec: next address
    count,       \* register codec: bytes left
    lret,        \* the handler's local ret
    ret,         \* value the call returned
    ubuf,        \* what copy_to_user stored in the client's buffer
    trace,       \* history: steps of the current call of each thread
    holds,       \* host claims each thread holds
    wake,        \* value of the device-wakeup line
    settled,     \* a full settle delay passed since wake last changed
    sleepers,    \* threads in msleep since before the last wake change
    funcEnabled, \* the SDIO function is enabled
    opened,      \* clients with an open file of the device
    cdevLive,    \* cdev_add done, cdev_del not yet
    devNode,     \* device_create done, device_destroy not yet
    drvdata      \* sdio_get_drvdata(func)

callVars == <<cmd, arg, r, data, alloc, reg, count, ubuf>>
lineVars == <<wake, settled, sleepers>>
chanVars == <<opened, cdevLive, devNode, drvdata>>
vars == <<pc, callVars, lret, ret, trace, holds, lineVars, funcEnabled,
          chanVars>>

\* ------------------------------------------------------ history records
NoVal == 0 - 1

\* A step that is not a bus primitive.
Step(t, op, v) ==
    [op |-> op, a |-> NoVal, n |-> NoVal, v |-> v, ok |-> TRUE,
     held |-> holds[t] > 0]

\* A data transfer on the bus: address, length, byte value, outcome.
BusStep(t, op, a, n, v, ok) ==
    [op |-> op, a |-> a, n |-> n, v |-> v, ok |-> ok,
     held |-> holds[t] > 0]

\* A lifecycle primitive on the bus.
LifeStep(t, op, ok) == BusStep(t, op, NoVal, NoVal, NoVal, ok)

Log(t, e) == [trace EXCEPT ![t] = Append(@, e)]
Log2(t, e1, e2) == [trace EXCEPT ![t] = Append(Append(@, e1), e2)]

\* ------------------------------------------------------------ the host
\* sdio_claim_host: the caller sleeps until no other thread has the host.
CanClaim(t) == \A u \in Threads \ {t} : holds[u] = 0
Claimed(t) == [holds EXCEPT ![t] = @ + 1]
Released(t) == [holds EXCEPT ![t] = @ - 1]

\* gpiod_direction_output(wakeup_device_gpio, v)
SetWake(v) ==
    /\ wake' = v
    /\ settled' = IF v = wake THEN settled ELSE FALSE
    /\ sleepers' = IF v = wake THEN sleepers ELSE {}

Init ==
    /\ pc = [t \in Threads |-> IF t = HP THEN "unbound" ELSE "idle"]
    /\ cmd = [t \in Clients |-> "OTHER"]
    /\ arg = [t \in Clients |-> Unmapped]
    /\ r = [t \in Clients |-> NoReq]
    /\ data = [t \in Clients |-> <<>>]
    /\ alloc = [t \in Clients |-> FALSE]
    /\ reg = [t \in Clients |-> 0]
    /\ count = [t \in Clients |-> 0]
    /\ lret = [t \in Threads |-> "0"]
    /\ ret = [t \in Threads |-> "none"]
    /\ ubuf = [t \in Clients |-> <<>>]
    /\ trace = [t \in Threads |-> <<>>]
    /\ holds = [t \in Threads |-> 0]
    /\ wake = 0
    /\ settled = FALSE
    /\ sleepers = {}
    /\ funcEnabled = FALSE
    /\ opened = [t \in Clients |-> FALSE]
    /\ cdevLive = FALSE
    /\ devNode = FALSE
    /\ drvdata = NULL

\* ------------------------------------------------------- client threads
\* open(2) on the character device: possible while the cdev is live.
Open(t) ==
    /\ pc[t] = "idle"
    /\ ~opened[t]
    /\ cdevLive
    /\ opened' = [opened EXCEPT ![t] = TRUE]
    /\ UNCHANGED <<pc, cmd, arg, r, data, alloc, reg, count, ubuf, lret, ret,
                   trace, holds, lineVars, funcEnabled, cdevLive, devNode, drvdata>>

\* ioctl(2) entry with command c and argument q: a fresh frame.
Enter(t, c, q) ==
    /\ pc[t] \in {"idle", "ret"}
    /\ opened[t]
    /\ cmd' = [cmd EXCEPT ![t] = c]
    /\ arg' = [arg EXCEPT ![t] = q]
    /\ data' = [data EXCEPT ![t] = <<>>]
    /\ alloc' = [alloc EXCEPT ![t] = FALSE]
    /\ reg' = [reg EXCEPT ![t] = 0]
    /\ count' = [count EXCEPT ![t] = 0]
    /\ ubuf' = [ubuf EXCEPT ![t] = <<>>]
    /\ lret' = [lret EXCEPT ![t] = "0"]

\* return v from the ioctl
Return(t, v) ==
    /\ pc' = [pc EXCEPT ![t] = "ret"]
    /\ ret' = [ret EXCEPT ![t] = v]

\* An ioctl whose cmd matches no case of the switch: return -EINVAL;
BadCmd(t) ==
    /\ Enter(t, "OTHER", Unmapped)
    /\ r' = [r EXCEPT ![t] = NoReq]
    /\ trace' = [trace EXCEPT ![t] = <<>>]
    /\ Return(t, "EINVAL")
    /\ UNCHANGED <<holds, lineVars, funcEnabled, chanVars>>

\* Mutant of ValidReq: the length check is off by one (>= for >).
ValidReq_OffByOne(c, q) ==
    ~(q.len >= LenLimit(c) \/ q.len = 0 \/ q.data = NULL)

\* if (r.len > limit || r.len == 0 || !r.data) return -EINVAL;
ValidReq(c, q) == ~(q.len > LenLimit(c) \/ q.len = 0 \/ q.data = NULL)

\* An ioctl with a data command: copy_from_user(&r, argp, sizeof(r)) and
\* the check of r.
Fetch(t, c, q) ==
    /\ Enter(t, c, q)
    /\ trace' = [trace EXCEPT ![t] = <<>>]
    /\ IF ~q.mapped
         THEN /\ Return(t, "EFAULT")
              /\ r' = [r EXCEPT ![t] = NoReq]
         ELSE /\ r' = [r EXCEPT ![t] = q]
              /\ IF ValidReq(c, q)
                   THEN /\ pc' = [pc EXCEPT ![t] = "kmalloc"]
                        /\ ret' = [ret EXCEPT ![t] = "none"]
                   ELSE Return(t, "EINVAL")
    /\ UNCHANGED <<holds, lineVars, funcEnabled, chanVars>>

Call(t) == \E c \in DataCmds : \E q \in NarrowArgs(c) : Fetch(t, c, q)
CallWide(t) == \E c \in DataCmds : \E q \in WideArgs(c) : Fetch(t, c, q)

\* u8 *data = kmalloc(r.len, GFP_KERNEL); if (!data) return -ENOMEM;
Kmalloc(t) ==
    /\ pc[t] = "kmalloc"
    /\ \E ok \in BOOLEAN :
         /\ trace' = Log(t, [Step(t, "kmalloc", r[t].len) EXCEPT !.ok = ok])
         /\ IF ok
              THEN /\ alloc' = [alloc EXCEPT ![t] = TRUE]
                   /\ pc' = [pc EXCEPT ![t] =
                                IF cmd[t] \in WriteCmds THEN "stage" ELSE "claim"]
                   /\ UNCHANGED ret
              ELSE /\ Return(t, "ENOMEM")
                   /\ UNCHANGED alloc
    /\ UNCHANGED <<cmd, arg, r, data, reg, count, ubuf, lret, holds, lineVars, funcEnabled, chanVars>>

\* The client's payload of n bytes.
UserPayload(n) == [i \in 1 .. n |-> UserByte(i)]
\* A block of n bytes starting at a, held by src, named without listing it.
Block(src, a, n) == <<src, a, n>>

\* Mutant of Stage: the host is claimed before the payload is copied in.
Stage_UnderClaim(t) ==
    /\ pc[t] = "stage"
    /\ CanClaim(t)
    /\ holds' = Claimed(t)
    /\ \E ok \in BOOLEAN :
         /\ trace' = Log2(t, Step(t, "claim", NoVal),
                          [Step(t, "copy_from_user", r[t].len)
                              EXCEPT !.ok = ok, !.held = TRUE])
         /\ IF ok
              THEN /\ data' = [data EXCEPT ![t] =
                                  IF cmd[t] = "REG_WRITE"
                                  THEN UserPayload(r[t].len)
                                  ELSE Block("user", 0, r[t].len)]
                   /\ pc' = [pc EXCEPT ![t] = "xfer"]
                   /\ reg' = [reg EXCEPT ![t] = r[t].reg]
                   /\ count' = [count EXCEPT ![t] = r[t].len]
              ELSE /\ pc' = [pc EXCEPT ![t] = "release"]
                   /\ UNCHANGED <<data, reg, count>>
         /\ lret' = [lret EXCEPT ![t] = IF ok THEN "0" ELSE "EFAULT"]
    /\ UNCHANGED <<cmd, arg, r, alloc, ubuf, ret, lineVars, funcEnabled,
                   chanVars>>

\* if (copy_from_user(data, (void __user *)r.data, r.len)) return -EFAULT;
Stage(t) ==
    /\ pc[t] = "stage"
    /\ \E ok \in BOOLEAN :
         /\ trace' = Log(t, [Step(t, "copy_from_user", r[t].len)
                                EXCEPT !.ok = ok])
         /\ IF ok
              THEN /\ data' = [data EXCEPT ![t] =
                                  IF cmd[t] = "REG_WRITE"
                                  THEN UserPayload(r[t].len)
                                  ELSE Block("user", 0, r[t].len)]
                   /\ pc' = [pc EXCEPT ![t] = "claim"]
                   /\ UNCHANGED ret
              ELSE /\ Return(t, "EFAULT")
                   /\ UNCHANGED data
    /\ UNCHANGED <<cmd, arg, r, alloc, reg, count, ubuf, lret, holds, lineVars, funcEnabled, chanVars>>

\* Mutant of LoopCond: the loop goes on after a failed transfer.
LoopCond_IgnoreRet(cnt, rt) == cnt # 0

\* while (count && !ret)
LoopCond(cnt, rt) == cnt # 0 /\ rt = "0"
\* Mutant of NextReg: the address is not advanced.
NextReg_Stuck(a) == a

\* reg++
NextReg(a) == a + 1

\* Mutant of DataClaim: the codec is called without sdio_claim_host.
DataClaim_NoClaim(t) ==
    /\ pc[t] = "claim"
    /\ trace' = Log(t, Step(t, "claim", NoVal))
    /\ reg' = [reg EXCEPT ![t] = r[t].reg]
    /\ count' = [count EXCEPT ![t] = r[t].len]
    /\ lret' = [lret EXCEPT ![t] = "0"]
    /\ pc' = [pc EXCEPT ![t] = "xfer"]
    /\ UNCHANGED <<cmd, arg, r, data, alloc, ubuf, ret, holds, lineVars,
                   funcEnabled, chanVars>>

\* sdio_claim_host(self->func), then the call of the codec: the register
\* codec starts with  if (count <= 0 || !dst) return -EINVAL;
DataClaim(t) ==
    /\ pc[t] = "claim"
    /\ CanClaim(t)
    /\ holds' = Claimed(t)
    /\ trace' = Log(t, Step(t, "claim", NoVal))
    /\ reg' = [reg EXCEPT ![t] = r[t].reg]
    /\ count' = [count EXCEPT ![t] = r[t].len]
    /\ IF cmd[t] \in RegCmds /\ (r[t].len <= 0 \/ ~alloc[t])
         THEN /\ lret' = [lret EXCEPT ![t] = "EINVAL"]
              /\ pc' = [pc EXCEPT ![t] = "release"]
         ELSE /\ lret' = [lret EXCEPT ![t] = "0"]
              /\ pc' = [pc EXCEPT ![t] = "xfer"]
    /\ UNCHANGED <<cmd, arg, r, data, alloc, ubuf, ret, lineVars,
                   funcEnabled, chanVars>>

\* One pass of the loop of bes2600_sdio_reg_read.
RegReadByte(t) ==
    /\ pc[t] = "xfer"
    /\ cmd[t] = "REG_READ"
    /\ LoopCond(count[t], lret[t])
    /\ \E ok \in BOOLEAN :
         LET byte == IF ok THEN DevByte(reg[t]) ELSE 255
             rt == IF ok THEN "0" ELSE BusErr
         IN  /\ trace' = Log(t, BusStep(t, "sdio_readb", reg[t], 1, byte, ok))
             /\ data' = [data EXCEPT ![t] = Append(@, byte)]
             /\ lret' = [lret EXCEPT ![t] = rt]
             /\ pc' = [pc EXCEPT ![t] =
                          IF LoopCond(count[t] - 1, rt) THEN "xfer" ELSE "release"]
    /\ reg' = [reg EXCEPT ![t] = NextReg(@)]
    /\ count' = [count EXCEPT ![t] = @ - 1]
    /\ UNCHANGED <<cmd, arg, r, alloc, ubuf, ret, holds, lineVars,
                   funcEnabled, chanVars>>

\* One pass of the loop of bes2600_sdio_reg_write.
RegWriteByte(t) ==
    /\ pc[t] = "xfer"
    /\ cmd[t] = "REG_WRITE"
    /\ LoopCond(count[t], lret[t])
    /\ \E ok \in BOOLEAN :
         LET byte == data[t][r[t].len - count[t] + 1]
             rt == IF ok THEN "0" ELSE BusErr
         IN  /\ trace' = Log(t, BusStep(t, "sdio_writeb", reg[t], 1, byte, ok))
             /\ lret' = [lret EXCEPT ![t] = rt]
             /\ pc' = [pc EXCEPT ![t] =
                          IF LoopCond(count[t] - 1, rt) THEN "xfer" ELSE "release"]
    /\ reg' = [reg EXCEPT ![t] = NextReg(@)]
    /\ count' = [count EXCEPT ![t] = @ - 1]
    /\ UNCHANGED <<cmd, arg, r, data, alloc, ubuf, ret, holds, lineVars,
                   funcEnabled, chanVars>>

\* Mutant of BlockLen: one SDIO block (512 bytes) at most is transferred.
BlockLen_OneBlock(q) == IF q.len > 512 THEN 512 ELSE q.len

\* Address and length handed to the block primitive.
BlockAddr(q) == q.reg
BlockLen(q) == q.len

\* ret = sdio_memcpy_fromio(self->func, data, r.reg, r.len);
MemRead(t) ==
    /\ pc[t] = "xfer"
    /\ cmd[t] = "MEM_READ"
    /\ \E ok \in BOOLEAN :
         /\ trace' = Log(t, BusStep(t, "sdio_memcpy_fromio", BlockAddr(r[t]),
                                    BlockLen(r[t]), NoVal, ok))
         /\ data' = [data EXCEPT ![t] =
                        IF ok THEN Block("dev", BlockAddr(r[t]), BlockLen(r[t]))
                        ELSE <<>>]
         /\ lret' = [lret EXCEPT ![t] = IF ok THEN "0" ELSE BusErr]
    /\ pc' = [pc EXCEPT ![t] = "release"]
    /\ UNCHANGED <<cmd, arg, r, alloc, reg, count, ubuf, ret, holds, lineVars,
                   funcEnabled, chanVars>>

\* ret = sdio_memcpy_toio(self->func, r.reg, data, r.len);
MemWrite(t) ==
    /\ pc[t] = "xfer"
    /\ cmd[t] = "MEM_WRITE"
    /\ \E ok \in BOOLEAN :
         /\ trace' = Log(t, BusStep(t, "sdio_memcpy_toio", BlockAddr(r[t]),
                                    BlockLen(r[t]), NoVal, ok))
         /\ lret' = [lret EXCEPT ![t] = IF ok THEN "0" ELSE BusErr]
    /\ pc' = [pc EXCEPT ![t] = "release"]
    /\ UNCHANGED <<cmd, arg, r, data, alloc, reg, count, ubuf, ret, holds,
                   lineVars, funcEnabled, chanVars>>

\* Mutant of DataRelease: the call never gets to sdio_release_host.
DataRelease_Never(t) ==
    /\ pc[t] = "release"
    /\ UNCHANGED vars

\* sdio_release_host(self->func) after the codec returned
DataRelease(t) ==
    /\ pc[t] = "release"
    /\ holds' = Released(t)
    /\ trace' = Log(t, Step(t, "release", NoVal))
    /\ pc' = [pc EXCEPT ![t] = "finish"]
    /\ UNCHANGED <<callVars, lret, ret, lineVars, funcEnabled, chanVars>>

\* kfree(data)
Kfree(t) == alloc' = [alloc EXCEPT ![t] = FALSE]

\* The end of a read case: the error return, or copy_to_user and return.
ReadFinish(t) ==
    /\ pc[t] = "finish"
    /\ cmd[t] \in ReadCmds
    /\ Kfree(t)
    /\ IF lret[t] # "0"
         THEN /\ trace' = Log(t, Step(t, "kfree", NoVal))
              /\ Return(t, lret[t])
              /\ UNCHANGED ubuf
         ELSE \E ok \in BOOLEAN :
                /\ trace' = Log2(t, [Step(t, "copy_to_user", r[t].len)
                                       EXCEPT !.ok = ok],
                                 Step(t, "kfree", NoVal))
                /\ ubuf' = [ubuf EXCEPT ![t] = IF ok THEN data[t] ELSE @]
                /\ Return(t, IF ok THEN "0" ELSE "EFAULT")
    /\ UNCHANGED <<cmd, arg, r, data, reg, count, lret, holds, lineVars, funcEnabled, chanVars>>

\* The end of a write case: kfree(data), then return ret or 0.
WriteFinish(t) ==
    /\ pc[t] = "finish"
    /\ cmd[t] \in WriteCmds
    /\ Kfree(t)
    /\ trace' = Log(t, Step(t, "kfree", NoVal))
    /\ Return(t, lret[t])
    /\ UNCHANGED <<cmd, arg, r, data, reg, count, ubuf, lret, holds, lineVars, funcEnabled, chanVars>>

\* ---------------------------------------------------- BESDBG_IOCTL_RESET
\* An ioctl with BESDBG_IOCTL_RESET:
\* gpiod_direction_output(self->wakeup_device_gpio, 0);
ResetGpio0(t) ==
    /\ Enter(t, "RESET", Unmapped)
    /\ r' = [r EXCEPT ![t] = NoReq]
    /\ SetWake(0)
    /\ trace' = [trace EXCEPT ![t] = <<Step(t, "gpio", 0)>>]
    /\ pc' = [pc EXCEPT ![t] = "r_claim"]
    /\ ret' = [ret EXCEPT ![t] = "none"]
    /\ UNCHANGED <<holds, funcEnabled, chanVars>>

\* Mutant of ResetClaim: the reset goes on without sdio_claim_host.
ResetClaim_NoClaim(t) ==
    /\ pc[t] = "r_claim"
    /\ pc' = [pc EXCEPT ![t] = "r_hwreset"]
    /\ UNCHANGED <<callVars, lret, ret, trace, holds, lineVars, funcEnabled,
                   chanVars>>

\* sdio_claim_host(self->func);
ResetClaim(t) ==
    /\ pc[t] = "r_claim"
    /\ CanClaim(t)
    /\ holds' = Claimed(t)
    /\ trace' = Log(t, Step(t, "claim", NoVal))
    /\ pc' = [pc EXCEPT ![t] = "r_hwreset"]
    /\ UNCHANGED <<callVars, lret, ret, lineVars, funcEnabled, chanVars>>

\* Mutant of ResetHwReset: a failed hardware reset ends the call.
ResetHwReset_Bail(t) ==
    /\ pc[t] = "r_hwreset"
    /\ \E ok \in BOOLEAN :
         /\ lret' = [lret EXCEPT ![t] = IF ok THEN "0" ELSE BusErr]
         /\ funcEnabled' = IF ok THEN FALSE ELSE funcEnabled
         /\ IF ok
              THEN /\ trace' = Log(t, LifeStep(t, "mmc_hw_reset", ok))
                   /\ pc' = [pc EXCEPT ![t] = "r_gpio1"]
                   /\ UNCHANGED <<ret, holds>>
              ELSE /\ trace' = Log2(t, LifeStep(t, "mmc_hw_reset", ok),
                                    Step(t, "release", NoVal))
                   /\ holds' = Released(t)
                   /\ Return(t, BusErr)
    /\ UNCHANGED <<callVars, lineVars, chanVars>>

\* ret = mmc_hw_reset(self->func->card); if (ret) dev_warn(...);
ResetHwReset(t) ==
    /\ pc[t] = "r_hwreset"
    /\ \E ok \in BOOLEAN :
         /\ trace' = Log(t, LifeStep(t, "mmc_hw_reset", ok))
         /\ lret' = [lret EXCEPT ![t] = IF ok THEN "0" ELSE BusErr]
         /\ funcEnabled' = IF ok THEN FALSE ELSE funcEnabled
    /\ pc' = [pc EXCEPT ![t] = "r_gpio1"]
    /\ UNCHANGED <<callVars, ret, holds, lineVars, chanVars>>

\* Mutant of ResetGpio1: the host is given up before the wake line is
\* reasserted.
ResetGpio1_DropClaim(t) ==
    /\ pc[t] = "r_gpio1"
    /\ holds' = Released(t)
    /\ SetWake(1)
    /\ trace' = Log2(t, Step(t, "release", NoVal),
                     [Step(t, "gpio", 1) EXCEPT !.held = FALSE])
    /\ pc' = [pc EXCEPT ![t] = "r_msleep"]
    /\ UNCHANGED <<callVars, lret, ret, funcEnabled, chanVars>>

\* gpiod_direction_output(self->wakeup_device_gpio, 1);
ResetGpio1(t) ==
    /\ pc[t] = "r_gpio1"
    /\ SetWake(1)
    /\ trace' = Log(t, Step(t, "gpio", 1))
    /\ pc' = [pc EXCEPT ![t] = "r_msleep"]
    /\ UNCHANGED <<callVars, lret, ret, holds, funcEnabled, chanVars>>

\* msleep(10): the thread goes to sleep ...
SleepBegin(t, from, to) ==
    /\ pc[t] = from
    /\ sleepers' = sleepers \cup {t}
    /\ pc' = [pc EXCEPT ![t] = to]
    /\ UNCHANGED <<callVars, lret, ret, trace, holds, wake, settled,
                   funcEnabled, chanVars>>

\* ... and wakes up after the delay: the line has settled if it was not
\* written to in between.
SleepEnd(t, from, to) ==
    /\ pc[t] = from
    /\ settled' = (settled \/ t \in sleepers)
    /\ sleepers' = sleepers \ {t}
    /\ trace' = Log(t, Step(t, "msleep", 10))
    /\ pc' = [pc EXCEPT ![t] = to]
    /\ UNCHANGED <<callVars, lret, ret, holds, wake, funcEnabled,
                   chanVars>>

ResetSleepBegin(t) == SleepBegin(t, "r_msleep", "r_sleeping")
ResetSleepEnd(t) == SleepEnd(t, "r_sleeping", "r_enable")

\* Mutant of ResetEnable: a successful enable keeps the ret of the hardware
\* reset.
ResetEnable_KeepHwRet(t) ==
    /\ pc[t] = "r_enable"
    /\ \E ok \in BOOLEAN :
         /\ trace' = Log(t, LifeStep(t, "sdio_enable_func", ok))
         /\ lret' = [lret EXCEPT ![t] = IF ok THEN @ ELSE BusErr]
         /\ funcEnabled' = IF ok THEN TRUE ELSE funcEnabled
    /\ pc' = [pc EXCEPT ![t] = "r_release"]
    /\ UNCHANGED <<callVars, ret, holds, lineVars, chanVars>>

\* ret = sdio_enable_func(self->func);
ResetEnable(t) ==
    /\ pc[t] = "r_enable"
    /\ \E ok \in BOOLEAN :
         /\ trace' = Log(t, LifeStep(t, "sdio_enable_func", ok))
         /\ lret' = [lret EXCEPT ![t] = IF ok THEN "0" ELSE BusErr]
         /\ funcEnabled' = IF ok THEN TRUE ELSE funcEnabled
    /\ pc' = [pc EXCEPT ![t] = "r_release"]
    /\ UNCHANGED <<callVars, ret, holds, lineVars, chanVars>>

\* Mutant of ResetRelease: the error return forgets sdio_release_host.
ResetRelease_LeakOnError(t) ==
    /\ pc[t] = "r_release"
    /\ IF lret[t] = "0"
         THEN /\ holds' = Released(t)
              /\ trace' = Log(t, Step(t, "release", NoVal))
         ELSE UNCHANGED <<holds, trace>>
    /\ Return(t, lret[t])
    /\ UNCHANGED <<callVars, lret, lineVars, funcEnabled, chanVars>>

\* if (ret) { sdio_release_host(self->func); return ret; }
\* sdio_release_host(self->func); return 0;
ResetRelease(t) ==
    /\ pc[t] = "r_release"
    /\ holds' = Released(t)
    /\ trace' = Log(t, Step(t, "release", NoVal))
    /\ Return(t, lret[t])
    /\ UNCHANGED <<callVars, lret, lineVars, funcEnabled, chanVars>>

\* ------------------------------------------------------------ besdbg_probe
HpGoto(to) == pc' = [pc EXCEPT ![HP] = to]
\* return v from probe
ProbeFail(v) ==
    /\ pc' = [pc EXCEPT ![HP] = "failed"]
    /\ ret' = [ret EXCEPT ![HP] = v]

\* The identity checks: func->num and the OF compatible string.
ProbeCheck ==
    /\ pc[HP] = "unbound"
    /\ trace' = [trace EXCEPT ![HP] = <<>>]
    /\ lret' = [lret EXCEPT ![HP] = "0"]
    /\ \E id \in {"match", "other_func", "no_of_node"} :
         IF id = "match"
         THEN /\ HpGoto("p_alloc")
              /\ ret' = [ret EXCEPT ![HP] = "none"]
         ELSE ProbeFail("ENODEV")
    /\ UNCHANGED <<callVars, holds, lineVars, funcEnabled, chanVars>>

\* self = devm_kzalloc(...); if (!self) return -ENOMEM;
ProbeAlloc ==
    /\ pc[HP] = "p_alloc"
    /\ \E ok \in BOOLEAN :
         IF ok THEN HpGoto("p_gpio") /\ UNCHANGED ret
         ELSE ProbeFail("ENOMEM")
    /\ UNCHANGED <<callVars, lret, trace, holds, lineVars,
                   funcEnabled, chanVars>>

\* devm_gpiod_get(dev, "device-wakeup", GPIOD_OUT_LOW)
ProbeGpioGet ==
    /\ pc[HP] = "p_gpio"
    /\ \E ok \in BOOLEAN :
         IF ok
         THEN /\ SetWake(0)
              /\ trace' = Log(HP, Step(HP, "gpiod_get", 0))
              /\ HpGoto("p_wake")
              /\ UNCHANGED ret
         ELSE /\ ProbeFail("ENOENT")
              /\ UNCHANGED <<lineVars, trace>>
    /\ UNCHANGED <<callVars, lret, holds, funcEnabled, chanVars>>

\* gpiod_direction_output(self->wakeup_device_gpio, 1);
ProbeGpio1 ==
    /\ pc[HP] = "p_wake"
    /\ SetWake(1)
    /\ trace' = Log(HP, Step(HP, "gpio", 1))
    /\ HpGoto("p_msleep")
    /\ UNCHANGED <<callVars, lret, ret, holds, funcEnabled, chanVars>>

ProbeSleepBegin == SleepBegin(HP, "p_msleep", "p_sleeping")
ProbeSleepEnd == SleepEnd(HP, "p_sleeping", "p_region")

\* ret = alloc_chrdev_region(&self->major, 0, 1, "besdbg");
ProbeRegion ==
    /\ pc[HP] = "p_region"
    /\ \E ok \in BOOLEAN :
         /\ trace' = Log(HP, [Step(HP, "alloc_chrdev_region", NoVal)
                                EXCEPT !.ok = ok])
         /\ lret' = [lret EXCEPT ![HP] = IF ok THEN "0" ELSE "EBUSY"]
         /\ HpGoto(IF ok THEN "p_cdev" ELSE "err_sleep")
    /\ UNCHANGED <<callVars, ret, holds, lineVars, funcEnabled, chanVars>>

\* cdev_init(...); ret = cdev_add(&self->cdev, self->major, 1);
ProbeCdevAdd ==
    /\ pc[HP] = "p_cdev"
    /\ \E ok \in BOOLEAN :
         /\ trace' = Log(HP, [Step(HP, "cdev_add", NoVal) EXCEPT !.ok = ok])
         /\ lret' = [lret EXCEPT ![HP] = IF ok THEN "0" ELSE "ENOMEM"]
         /\ cdevLive' = ok
         /\ HpGoto(IF ok THEN "p_device" ELSE "err_unreg")
    /\ UNCHANGED <<callVars, ret, holds, lineVars, funcEnabled, opened, devNode, drvdata>>

\* sdev = device_create(besdbg_class, dev, self->major, self, "besdbg");
ProbeDeviceCreate ==
    /\ pc[HP] = "p_device"
    /\ \E ok \in BOOLEAN :
         /\ trace' = Log(HP, [Step(HP, "device_create", NoVal)
                                EXCEPT !.ok = ok])
         /\ lret' = [lret EXCEPT ![HP] = IF ok THEN "0" ELSE "ENOMEM"]
         /\ devNode' = ok
         /\ HpGoto(IF ok THEN "p_claim" ELSE "err_cdev")
    /\ UNCHANGED <<callVars, ret, holds, lineVars, funcEnabled, opened, cdevLive, drvdata>>

\* sdio_set_drvdata(func, self); sdio_claim_host(func);
ProbeClaim ==
    /\ pc[HP] = "p_claim"
    /\ CanClaim(HP)
    /\ drvdata' = "self"
    /\ holds' = Claimed(HP)
    /\ trace' = Log(HP, Step(HP, "claim", NoVal))
    /\ HpGoto("p_enable")
    /\ UNCHANGED <<callVars, lret, ret, lineVars, funcEnabled, opened, cdevLive, devNode>>

\* ret = sdio_enable_func(func); if (ret) dev_warn(...);
ProbeEnable ==
    /\ pc[HP] = "p_enable"
    /\ \E ok \in BOOLEAN :
         /\ trace' = Log(HP, LifeStep(HP, "sdio_enable_func", ok))
         /\ lret' = [lret EXCEPT ![HP] = IF ok THEN "0" ELSE BusErr]
         /\ funcEnabled' = IF ok THEN TRUE ELSE funcEnabled
    /\ HpGoto("p_release")
    /\ UNCHANGED <<callVars, ret, holds, lineVars, chanVars>>

\* Mutant of ProbeRelease: probe returns the ret of sdio_enable_func.
ProbeRelease_ReturnRet ==
    /\ pc[HP] = "p_release"
    /\ holds' = Released(HP)
    /\ trace' = Log(HP, Step(HP, "release", NoVal))
    /\ pc' = [pc EXCEPT ![HP] = IF lret[HP] = "0" THEN "bound" ELSE "failed"]
    /\ ret' = [ret EXCEPT ![HP] = lret[HP]]
    /\ UNCHANGED <<callVars, lret, lineVars, funcEnabled, chanVars>>

\* sdio_release_host(func); return 0;
ProbeRelease ==
    /\ pc[HP] = "p_release"
    /\ holds' = Released(HP)
    /\ trace' = Log(HP, Step(HP, "release", NoVal))
    /\ pc' = [pc EXCEPT ![HP] = "bound"]
    /\ ret' = [ret EXCEPT ![HP] = "0"]
    /\ UNCHANGED <<callVars, lret, lineVars, funcEnabled, chanVars>>

\* Mutant of ProbeErrCdev: the label forgets cdev_del.
ProbeErrCdev_Skip ==
    /\ pc[HP] = "err_cdev"
    /\ HpGoto("err_unreg")
    /\ UNCHANGED <<callVars, lret, ret, trace, holds, lineVars, funcEnabled,
                   chanVars>>

\* err_cdev: cdev_del(&self->cdev);
ProbeErrCdev ==
    /\ pc[HP] = "err_cdev"
    /\ cdevLive' = FALSE
    /\ trace' = Log(HP, Step(HP, "cdev_del", NoVal))
    /\ HpGoto("err_unreg")
    /\ UNCHANGED <<callVars, lret, ret, holds, lineVars, funcEnabled,
                   opened, devNode, drvdata>>

\* err_unreg_chrev_region: unregister_chrdev(self->major, "besdbg");
ProbeErrUnreg ==
    /\ pc[HP] = "err_unreg"
    /\ trace' = Log(HP, Step(HP, "unregister_chrdev", NoVal))
    /\ HpGoto("err_sleep")
    /\ UNCHANGED <<callVars, lret, ret, holds, lineVars, funcEnabled,
                   chanVars>>

\* err_sleep: gpiod_direction_output(self->wakeup_device_gpio, 0);
\* return ret;
ProbeErrSleep ==
    /\ pc[HP] = "err_sleep"
    /\ SetWake(0)
    /\ trace' = Log(HP, Step(HP, "gpio", 0))
    /\ ProbeFail(lret[HP])
    /\ UNCHANGED <<callVars, lret, holds, funcEnabled, chanVars>>

\* ------------------------------------------------------- besdbg_disconnect
\* Mutant of DisconnectStart: the handler goes on without looking at drvdata.
DisconnectStart_NoCheck ==
    /\ pc[HP] \in {"bound", "detached"}
    /\ trace' = [trace EXCEPT ![HP] = <<>>]
    /\ HpGoto("d_teardown")
    /\ ret' = [ret EXCEPT ![HP] = "none"]
    /\ UNCHANGED <<callVars, lret, holds, lineVars, funcEnabled,
                   chanVars>>

\* self = sdio_get_drvdata(func); if (!self) return;
DisconnectStart ==
    /\ pc[HP] \in {"bound", "detached"}
    /\ trace' = [trace EXCEPT ![HP] = <<>>]
    /\ IF drvdata = NULL
         THEN /\ pc' = [pc EXCEPT ![HP] = "detached"]
              /\ ret' = [ret EXCEPT ![HP] = "void"]
         ELSE /\ HpGoto("d_teardown")
              /\ ret' = [ret EXCEPT ![HP] = "none"]
    /\ UNCHANGED <<callVars, lret, holds, lineVars, funcEnabled,
                   chanVars>>

\* cdev_del(...); unregister_chrdev(...); device_destroy(...);
DisconnectTeardown ==
    /\ pc[HP] = "d_teardown"
    /\ cdevLive' = FALSE
    /\ devNode' = FALSE
    /\ trace' = [trace EXCEPT ![HP] =
                    @ \o <<Step(HP, "cdev_del", NoVal),
                           Step(HP, "unregister_chrdev", NoVal),
                           Step(HP, "device_destroy", NoVal)>>]
    /\ HpGoto("d_claim")
    /\ UNCHANGED <<callVars, lret, ret, holds, lineVars, funcEnabled,
                   opened, drvdata>>

\* sdio_claim_host(func);
DisconnectClaim ==
    /\ pc[HP] = "d_claim"
    /\ CanClaim(HP)
    /\ holds' = Claimed(HP)
    /\ trace' = Log(HP, Step(HP, "claim", NoVal))
    /\ HpGoto("d_disable")
    /\ UNCHANGED <<callVars, lret, ret, lineVars, funcEnabled, chanVars>>

\* sdio_disable_func(func);
DisconnectDisable ==
    /\ pc[HP] = "d_disable"
    /\ \E ok \in BOOLEAN :
         /\ trace' = Log(HP, LifeStep(HP, "sdio_disable_func", ok))
         /\ funcEnabled' = IF ok THEN FALSE ELSE funcEnabled
    /\ HpGoto("d_release")
    /\ UNCHANGED <<callVars, lret, ret, holds, lineVars, chanVars>>

\* Mutant of DisconnectRelease: the wake line is written before the host is
\* released.
DisconnectRelease_Late ==
    /\ pc[HP] = "d_release"
    /\ trace' = Log(HP, Step(HP, "gpio", 0))
    /\ HpGoto("d_gpio0")
    /\ UNCHANGED <<callVars, lret, ret, holds, lineVars, funcEnabled,
                   chanVars>>

\* sdio_release_host(func);
DisconnectRelease ==
    /\ pc[HP] = "d_release"
    /\ holds' = Released(HP)
    /\ trace' = Log(HP, Step(HP, "release", NoVal))
    /\ HpGoto("d_gpio0")
    /\ UNCHANGED <<callVars, lret, ret, lineVars, funcEnabled, chanVars>>

\* sdio_set_drvdata(func, NULL);
\* gpiod_direction_output(self->wakeup_device_gpio, 0);
DisconnectGpio0 ==
    /\ pc[HP] = "d_gpio0"
    /\ drvdata' = NULL
    /\ SetWake(0)
    /\ trace' = Log(HP, Step(HP, "gpio", 0))
    /\ pc' = [pc EXCEPT ![HP] = "detached"]
    /\ ret' = [ret EXCEPT ![HP] = "void"]
    /\ UNCHANGED <<callVars, lret, holds, funcEnabled, opened,
                   cdevLive, devNode>>

\* ------------------------------------------------------------------ Next
Next ==
    \/ \E t \in Clients : Open(t)
    \/ \E t \in Clients : Call(t)
    \/ \E t \in Clients : BadCmd(t)
    \/ \E t \in Clients : Kmalloc(t)
    \/ \E t \in Clients : Stage(t)
    \/ \E t \in Clients : DataClaim(t)
    \/ \E t \in Clients : RegReadByte(t)
    \/ \E t \in Clients : RegWriteByte(t)
    \/ \E t \in Clients : MemRead(t)
    \/ \E t \in Clients : MemWrite(t)
    \/ \E t \in Clients : DataRelease(t)
    \/ \E t \in Clients : ReadFinish(t)
    \/ \E t \in Clients : WriteFinish(t)
    \/ \E t \in Clients : ResetGpio0(t)
    \/ \E t \in Clients : ResetClaim(t)
    \/ \E t \in Clients : ResetHwReset(t)
    \/ \E t \in Clients : ResetGpio1(t)
    \/ \E t \in Clients : ResetSleepBegin(t)
    \/ \E t \in Clients : ResetSleepEnd(t)
    \/ \E t \in Clients : ResetEnable(t)
    \/ \E t \in Clients : ResetRelease(t)
    \/ ProbeCheck
    \/ ProbeAlloc
    \/ ProbeGpioGet
    \/ ProbeGpio1
    \/ ProbeSleepBegin
    \/ ProbeSleepEnd
    \/ ProbeRegion
    \/ ProbeCdevAdd
    \/ ProbeDeviceCreate
    \/ ProbeClaim
    \/ ProbeEnable
    \/ ProbeRelease
    \/ ProbeErrCdev
    \/ ProbeErrUnreg
    \/ ProbeErrSleep
    \/ DisconnectStart
    \/ DisconnectTeardown
    \/ DisconnectClaim
    \/ DisconnectDisable
    \/ DisconnectRelease
    \/ DisconnectGpio0

Spec == Init /\ [][Next]_vars

\* -------------------------------------------------------------- SeqSpec
\* The state after a successful probe (the enable of the function may have
\* failed), before any client opened the device.
InitSeq ==
    /\ pc = [t \in Threads |-> IF t = HP THEN "bound" ELSE "idle"]
    /\ cmd = [t \in Clients |-> "OTHER"]
    /\ arg = [t \in Clients |-> Unmapped]
    /\ r = [t \in Clients |-> NoReq]
    /\ data = [t \in Clients |-> <<>>]
    /\ alloc = [t \in Clients |-> FALSE]
    /\ reg = [t \in Clients |-> 0]
    /\ count = [t \in Clients |-> 0]
    /\ lret = [t \in Threads |-> "0"]
    /\ ret = [t \in Threads |-> IF t = HP THEN "0" ELSE "none"]
    /\ ubuf = [t \in Clients |-> <<>>]
    /\ trace = [t \in Threads |-> <<>>]
    /\ holds = [t \in Threads |-> 0]
    /\ wake = 1
    /\ settled = TRUE
    /\ sleepers = {}
    /\ funcEnabled \in BOOLEAN
    /\ opened = [t \in Clients |-> FALSE]
    /\ cdevLive = TRUE
    /\ devNode = TRUE
    /\ drvdata = "self"

NextSeq ==
    \/ \E t \in SeqClients : Open(t)
    \/ \E t \in SeqClients : CallWide(t)
    \/ \E t \in SeqClients : BadCmd(t)
    \/ \E t \in SeqClients : Kmalloc(t)
    \/ \E t \in SeqClients : Stage(t)
    \/ \E t \in SeqClients : DataClaim(t)
    \/ \E t \in SeqClients : RegReadByte(t)
    \/ \E t \in SeqClients : RegWriteByte(t)
    \/ \E t \in SeqClients : MemRead(t)
    \/ \E t \in SeqClients : MemWrite(t)
    \/ \E t \in SeqClients : DataRelease(t)
    \/ \E t \in SeqClients : ReadFinish(t)
    \/ \E t \in SeqClients : WriteFinish(t)
    \/ \E t \in SeqClients : ResetGpio0(t)
    \/ \E t \in SeqClients : ResetClaim(t)
    \/ \E t \in SeqClients : ResetHwReset(t)
    \/ \E t \in SeqClients : ResetGpio1(t)
    \/ \E t \in SeqClients : ResetSleepBegin(t)
    \/ \E t \in SeqClients : ResetSleepEnd(t)
    \/ \E t \in SeqClients : ResetEnable(t)
    \/ \E t \in SeqClients : ResetRelease(t)

SeqSpec == InitSeq /\ [][NextSeq]_vars

\* ------------------------------------------------------------- fairness
\* The steps of a client inside an ioctl that do not wait for the host:
\* each of them terminates.
ClientStep(t) ==
    \/ Kmalloc(t) \/ Stage(t)
    \/ RegReadByte(t) \/ RegWriteByte(t) \/ MemRead(t) \/ MemWrite(t)
    \/ DataRelease(t) \/ ReadFinish(t) \/ WriteFinish(t)
    \/ ResetHwReset(t) \/ ResetGpio1(t) \/ ResetSleepBegin(t)
    \/ ResetSleepEnd(t) \/ ResetEnable(t) \/ ResetRelease(t)
\* The steps of the hotplug thread inside probe or disconnect that do not
\* wait for the host.
HotplugStep ==
    \/ ProbeAlloc \/ ProbeGpioGet \/ ProbeGpio1 \/ ProbeSleepBegin
    \/ ProbeSleepEnd \/ ProbeRegion \/ ProbeCdevAdd \/ ProbeDeviceCreate
    \/ ProbeEnable \/ ProbeRelease \/ ProbeErrCdev \/ ProbeErrUnreg
    \/ ProbeErrSleep \/ DisconnectTeardown \/ DisconnectDisable
    \/ DisconnectRelease \/ DisconnectGpio0
\* sdio_claim_host wakes a waiter that finds the host free again and again.
Fairness ==
    /\ \A t \in Clients : WF_vars(ClientStep(t))
    /\ \A t \in Clients : SF_vars(DataClaim(t))
    /\ \A t \in Clients : SF_vars(ResetClaim(t))
    /\ WF_vars(HotplugStep)
    /\ SF_vars(ProbeClaim)
    /\ SF_vars(DisconnectClaim)

\* ------------------------------------------------------------- LiveSpec
\* A bound device that both clients have opened.  Client c1 issues data
\* requests, client c2 issues resets, and the hotplug thread disconnects
\* the device under them.
InitLive ==
    /\ pc = [t \in Threads |-> IF t = HP THEN "bound" ELSE "idle"]
    /\ cmd = [t \in Clients |-> "OTHER"]
    /\ arg = [t \in Clients |-> Unmapped]
    /\ r = [t \in Clients |-> NoReq]
    /\ data = [t \in Clients |-> <<>>]
    /\ alloc = [t \in Clients |-> FALSE]
    /\ reg = [t \in Clients |-> 0]
    /\ count = [t \in Clients |-> 0]
    /\ lret = [t \in Threads |-> "0"]
    /\ ret = [t \in Threads |-> IF t = HP THEN "0" ELSE "none"]
    /\ ubuf = [t \in Clients |-> <<>>]
    /\ trace = [t \in Threads |-> <<>>]
    /\ holds = [t \in Threads |-> 0]
    /\ wake = 1
    /\ settled = TRUE
    /\ sleepers = {}
    /\ funcEnabled = TRUE
    /\ opened = [t \in Clients |-> TRUE]
    /\ cdevLive = TRUE
    /\ devNode = TRUE
    /\ drvdata = "self"

NextLive ==
    \/ Call("c1")
    \/ Kmalloc("c1")
    \/ Stage("c1")
    \/ DataClaim("c1")
    \/ RegReadByte("c1")
    \/ RegWriteByte("c1")
    \/ MemRead("c1")
    \/ MemWrite("c1")
    \/ DataRelease("c1")
    \/ ReadFinish("c1")
    \/ WriteFinish("c1")
    \/ ResetGpio0("c2")
    \/ ResetClaim("c2")
    \/ ResetHwReset("c2")
    \/ ResetGpio1("c2")
    \/ ResetSleepBegin("c2")
    \/ ResetSleepEnd("c2")
    \/ ResetEnable("c2")
    \/ ResetRelease("c2")
    \/ DisconnectStart
    \/ DisconnectTeardown
    \/ DisconnectClaim
    \/ DisconnectDisable
    \/ DisconnectRelease
    \/ DisconnectGpio0

LiveSpec == InitLive /\ [][NextLive]_vars /\ Fairness

\* ------------------------------------------------- the chrdev region
\* The device number region is registered by a successful
\* alloc_chrdev_region and given back by a later unregister_chrdev.
RegionHeld(tr) ==
    \E i \in 1 .. Len(tr) :
        /\ tr[i].op = "alloc_chrdev_region"
        /\ tr[i].ok
        /\ \A j \in (i + 1) .. Len(tr) : tr[j].op # "unregister_chrdev"

\* ================================================================ claims
AtRest(t) == pc[t] \in {"idle", "ret"}
\* The bus primitives among the steps of a call.
BusSteps(tr) == SelectSeq(tr, LAMBDA e : e.op \in BusOps)
ByteSteps(tr) == SelectSeq(tr, LAMBDA e : e.op \in {"sdio_readb", "sdio_writeb"})
HasOp(tr, ops) == \E i \in 1 .. Len(tr) : tr[i].op \in ops
IsPrefix(p, q) == Len(p) <= Len(q) /\ \A i \in 1 .. Len(p) : p[i] = q[i]

\* The limits as the claim states them.
StatedLimit(c) == IF c = "REG_READ" THEN 32 ELSE 65536
Rejectable(c, q) ==
    q.len = 0 \/ q.len > StatedLimit(c) \/ q.data = NULL

\* C1: a data request of length 0, of a length above the limit of its kind,
\* or with a null payload pointer returns InvalidArgument, and the call
\* takes no bus claim, issues no bus primitive and allocates no staging
\* buffer; a request whose length equals the limit passes the check and
\* goes on to the allocation.
C1_InvalidRejected ==
    /\ \A t \in Clients :
         (pc[t] # "idle" /\ cmd[t] \in DataCmds /\ arg[t].mapped
              /\ Rejectable(cmd[t], arg[t]))
         => /\ pc[t] = "ret"
            /\ ret[t] = "EINVAL"
            /\ ~HasOp(trace[t], BusOps \cup {"claim", "kmalloc"})
            /\ holds[t] = 0
            /\ ~alloc[t]
    /\ \A t \in Clients :
         (pc[t] # "idle" /\ cmd[t] \in DataCmds /\ arg[t].mapped
              /\ arg[t].len = StatedLimit(cmd[t]) /\ arg[t].data # NULL)
         => /\ \/ pc[t] = "kmalloc"
               \/ Len(trace[t]) >= 1 /\ trace[t][1].op = "kmalloc"
            /\ ret[t] # "EINVAL"
    /\ \A c \in DataCmds : \A a \in Addrs :
         ValidReq(c, [reg |-> a, len |-> StatedLimit(c), data |-> UPTR,
                      mapped |-> TRUE])

\* BlockWrite(addr = 0x1000, length above 64 KiB) has been rejected.
C1_Witness ==
    /\ pc["c1"] = "ret"
    /\ cmd["c1"] = "MEM_WRITE"
    /\ arg["c1"] = [reg |-> 4096, len |-> 65537, data |-> UPTR,
                     mapped |-> TRUE]
    /\ ret["c1"] = "EINVAL"

\* C2: every bus primitive of dispatch, reset, probe and disconnect is
\* issued by a thread that holds the host at that moment, and at most one
\* thread holds the host.
C2_BusUnderClaim ==
    /\ \A t \in Threads : \A i \in 1 .. Len(trace[t]) :
         trace[t][i].op \in BusOps => trace[t][i].held
    /\ Cardinality({t \in Threads : holds[t] > 0}) <= 1

\* A client holds the host in the middle of a transfer while disconnect
\* waits for it.
C2_Witness ==
    /\ pc[HP] = "d_claim"
    /\ \E t \in Clients : holds[t] > 0 /\ HasOp(trace[t], BusOps)

\* Thread t is between two single-byte transfers of one request.
MidTransfer(t) ==
    /\ pc[t] = "xfer"
    /\ cmd[t] \in RegCmds
    /\ HasOp(trace[t], BusOps)
\* This step is a bus primitive of thread u.
BusOpBy(u) ==
    /\ Len(trace'[u]) = Len(trace[u]) + 1
    /\ trace'[u][Len(trace'[u])].op \in BusOps

\* C3: no bus primitive of another thread is issued between the first and
\* the last single-byte transfer of a RegisterRead or RegisterWrite.
C3_Contiguous ==
    [][\A u \in Threads : BusOpBy(u)
          => \A t \in Clients \ {u} : ~MidTransfer(t)]_vars

\* One client is between two bytes of its request while the other waits
\* for the host in a reset.
C3_Witness ==
    \E t \in Clients : \E u \in Clients \ {t} :
        MidTransfer(t) /\ pc[u] = "r_claim"

\* C4: a client that is not inside an ioctl does not hold the host, and no
\* thread ever holds the host twice.
C4_ReleasedOnReturn ==
    /\ \A t \in Clients : AtRest(t) => holds[t] = 0
    /\ \A t \in Threads : holds[t] <= 1

\* A reset has returned the error of the failed re-enable.
C4_Witness ==
    \E t \in Clients :
        /\ pc[t] = "ret"
        /\ cmd[t] = "RESET"
        /\ ret[t] = BusErr
        /\ HasOp(trace[t], {"release"})

\* C5: a successful RegisterRead(addr, N) issues exactly N single-byte
\* reads, at addr, addr+1, ..., addr+N-1 in that order, and the client gets
\* the bytes read there, in that order.
C5_RegisterRead ==
    \A t \in Clients :
        (pc[t] = "ret" /\ cmd[t] = "REG_READ" /\ ret[t] = "0")
        => LET rd == BusSteps(trace[t])
               N == arg[t].len
           IN  /\ 1 <= N /\ N <= 32
               /\ Len(rd) = N
               /\ \A i \in 1 .. N :
                    /\ rd[i].op = "sdio_readb"
                    /\ rd[i].a = arg[t].reg + i - 1
                    /\ rd[i].v = DevByte(arg[t].reg + i - 1)
               /\ ubuf[t] = [i \in 1 .. N |-> rd[i].v]

\* RegisterRead(addr = 0x10, N = 32) returned 0xAA 0xBB 0xCC 0xDD ...
C5_Witness ==
    /\ pc["c1"] = "ret"
    /\ cmd["c1"] = "REG_READ"
    /\ ret["c1"] = "0"
    /\ arg["c1"].reg = 16
    /\ arg["c1"].len = 32
    /\ SubSeq(ubuf["c1"], 1, 4) = <<170, 187, 204, 221>>

\* C6: when a single-byte transfer of a RegisterRead or RegisterWrite
\* fails, no transfer follows it, the call returns the bus error, and a
\* read copies nothing to the client.
C6_FailFast ==
    \A t \in Clients :
        LET xs == ByteSteps(trace[t])
        IN  (cmd[t] \in RegCmds /\ \E k \in 1 .. Len(xs) : ~xs[k].ok)
            => /\ \A k \in 1 .. Len(xs) : ~xs[k].ok => k = Len(xs)
               /\ Len(BusSteps(trace[t])) = Len(xs)
               /\ pc[t] \notin {"xfer", "claim"}
               /\ ~HasOp(trace[t], {"copy_to_user"})
               /\ ubuf[t] = <<>>
               /\ pc[t] = "ret" => ret[t] = BusErr

\* The 3rd byte of a RegisterRead failed and the call has returned.
C6_Witness ==
    /\ pc["c1"] = "ret"
    /\ cmd["c1"] = "REG_READ"
    /\ arg["c1"].len = 32
    /\ Len(ByteSteps(trace["c1"])) = 3
    /\ ~ByteSteps(trace["c1"])[3].ok
    /\ ret["c1"] = BusErr

\* C7: a successful BlockRead or BlockWrite(addr, len) issues exactly one
\* block transfer, at addr with length len, and no single-byte transfer.
C7_OneBlock ==
    \A t \in Clients :
        (pc[t] = "ret" /\ cmd[t] \in MemCmds /\ ret[t] = "0")
        => LET bs == BusSteps(trace[t])
           IN  /\ 1 <= arg[t].len /\ arg[t].len <= 65536
               /\ Len(bs) = 1
               /\ bs[1].op = IF cmd[t] = "MEM_READ"
                              THEN "sdio_memcpy_fromio"
                              ELSE "sdio_memcpy_toio"
               /\ bs[1].a = arg[t].reg
               /\ bs[1].n = arg[t].len
               /\ bs[1].ok

\* BlockWrite(addr = 0x1000, 64 KiB) has succeeded.
C7_Witness ==
    /\ pc["c1"] = "ret"
    /\ cmd["c1"] = "MEM_WRITE"
    /\ arg["c1"].reg = 4096
    /\ arg["c1"].len = 65536
    /\ ret["c1"] = "0"

\* The wake-line, reset, sleep and enable steps of a call, with values.
ResetSteps(tr) ==
    LET sel == SelectSeq(tr, LAMBDA e : e.op \in {"gpio", "mmc_hw_reset",
                                                   "msleep", "sdio_enable_func"})
    IN  [i \in 1 .. Len(sel) |-> <<sel[i].op, sel[i].v>>]
ResetOrder ==
    << <<"gpio", 0>>, <<"mmc_hw_reset", NoVal>>, <<"gpio", 1>>,
       <<"msleep", 10>>, <<"sdio_enable_func", NoVal>> >>

\* C8: a reset call deasserts the wake line, resets the hardware, reasserts
\* the wake line, sleeps the settle delay and enables the function, once
\* each and in this order; a failed hardware reset skips none of them.
C8_ResetOrder ==
    \A t \in Clients :
        (cmd[t] = "RESET" /\ pc[t] # "idle")
        => /\ IsPrefix(ResetSteps(trace[t]), ResetOrder)
           /\ pc[t] = "ret" => ResetSteps(trace[t]) = ResetOrder

\* A reset whose hardware reset failed has returned.
C8_Witness ==
    \E t \in Clients :
        /\ pc[t] = "ret"
        /\ cmd[t] = "RESET"
        /\ \E i \in 1 .. Len(trace[t]) :
             trace[t][i].op = "mmc_hw_reset" /\ ~trace[t][i].ok

\* C9: every hardware reset of a reset call is issued with the wake line
\* deasserted, and every re-enable with the wake line asserted and settled.
C9_WakeDiscipline ==
    [][\A t \in Clients :
          /\ (pc[t] = "r_hwreset" /\ pc'[t] # "r_hwreset") => wake = 0
          /\ (pc[t] = "r_enable" /\ pc'[t] # "r_enable")
               => (wake = 1 /\ settled)]_vars

\* C10: when no client is inside an ioctl, no staging buffer is live.
C10_NoLiveBuffer ==
    (\A t \in Clients : AtRest(t)) => (\A t \in Clients : ~alloc[t])

\* This step is a step of the hotplug thread.
HpStep == <<pc[HP], trace[HP], ret[HP]>>' # <<pc[HP], trace[HP], ret[HP]>>

\* C11: a disconnect called after a disconnect has returned takes no host
\* claim, disables no function, retracts nothing of the character device
\* and does not write the wake line: it returns at once.
C11_SecondDetach ==
    [][(pc[HP] = "detached" /\ HpStep)
          => /\ pc'[HP] = "detached"
             /\ trace'[HP] = <<>>
             /\ ret'[HP] = "void"
             /\ UNCHANGED <<holds, lineVars, funcEnabled, chanVars>>]_vars

\* The second disconnect has returned: its call has no step at all.
C11_Witness ==
    /\ pc[HP] = "detached"
    /\ ret[HP] = "void"
    /\ trace[HP] = <<>>
    /\ drvdata = NULL

\* The positions of the steps named ops among the steps of a call.
At(tr, ops) == {i \in 1 .. Len(tr) : tr[i].op \in ops}

\* C12: in a write call the copy of the payload from the client's buffer
\* is over before the host is claimed; in a read call the copy to the
\* client's buffer starts after the host is released; no copy across the
\* user boundary is made by a call that holds the host, and a write whose
\* payload copy faults claims nothing and issues no bus primitive.
C12_CopyOutsideClaim ==
    \A t \in Clients :
        (cmd[t] \in DataCmds /\ pc[t] # "idle")
        => LET tr == trace[t]
           IN  /\ \A i \in At(tr, {"copy_from_user", "copy_to_user"}) :
                    ~tr[i].held
               /\ \A i \in At(tr, {"copy_from_user"}) :
                    \A j \in At(tr, {"claim"} \cup BusOps) : i < j
               /\ cmd[t] \in WriteCmds
                    => \A j \in At(tr, {"claim"}) :
                         \E i \in At(tr, {"copy_from_user"}) :
                             i < j /\ tr[i].ok
               /\ \A i \in At(tr, {"copy_to_user"}) :
                    /\ \E j \in At(tr, {"release"}) : j < i
                    /\ \A j \in At(tr, {"claim", "release"} \cup BusOps) :
                         j < i
               /\ (\E i \in At(tr, {"copy_from_user"}) : ~tr[i].ok)
                    => /\ At(tr, {"claim"} \cup BusOps) = {}
                       /\ holds[t] = 0
               /\ pc[t] \in {"stage", "finish"} => holds[t] = 0

\* A RegisterWrite whose payload could not be read has returned while the
\* other client holds the host.
C12_Witness ==
    \E t \in Clients : \E u \in Clients \ {t} :
        /\ pc[t] = "ret"
        /\ cmd[t] = "REG_WRITE"
        /\ ret[t] = "EFAULT"
        /\ At(trace[t], {"copy_from_user"}) # {}
        /\ holds[u] = 1

\* The step named op of a call failed.
Failed(tr, op) == \E i \in At(tr, {op}) : ~tr[i].ok

\* C13: a reset call returns an error exactly when its sdio_enable_func
\* failed, and then it returns that error; a failed mmc_hw_reset alone gives
\* 0.  After a failed enable the call does not write the wake line again (it
\* stays asserted) and the host is released.
C13_ResetError ==
    \A t \in Clients :
        (pc[t] = "ret" /\ cmd[t] = "RESET")
        => LET tr == trace[t]
               en == At(tr, {"sdio_enable_func"})
           IN  /\ Cardinality(en) = 1
               /\ ret[t] # "0" <=> Failed(tr, "sdio_enable_func")
               /\ Failed(tr, "sdio_enable_func") => ret[t] = BusErr
               /\ \A i \in At(tr, {"gpio"}) : \A j \in en : i < j
               /\ wake = 1
               /\ holds[t] = 0
               /\ tr[Len(tr)].op = "release"

\* A reset whose re-enable failed has returned the error, the wake line is
\* asserted and the function is left as the hardware reset put it.
C13_Witness ==
    /\ pc["c1"] = "ret"
    /\ cmd["c1"] = "RESET"
    /\ ret["c1"] = BusErr
    /\ Failed(trace["c1"], "sdio_enable_func")
    /\ ~Failed(trace["c1"], "mmc_hw_reset")
    /\ wake = 1
    /\ ~funcEnabled

\* The steps of the error labels of probe.
UnwindOps == {"cdev_del", "unregister_chrdev"}
\* The wake-line writes of a call, in order.
GpioWrites(tr) ==
    LET sel == SelectSeq(tr, LAMBDA e : e.op = "gpio")
    IN  [i \in 1 .. Len(sel) |-> sel[i].v]

\* C14: a probe of the matching function whose sdio_enable_func failed
\* returns 0 with the character device added and its node created, the
\* driver data set, the wake line written to 1 and never back to 0, and
\* none of the error labels run; as long as no client has opened the
\* device, the wake line is asserted and the function is not enabled.
C14_AttachTolerant ==
    (pc[HP] \in {"bound", "failed"} /\ Failed(trace[HP], "sdio_enable_func"))
    => /\ pc[HP] = "bound"
       /\ ret[HP] = "0"
       /\ cdevLive /\ devNode
       /\ drvdata # NULL
       /\ GpioWrites(trace[HP]) = <<1>>
       /\ At(trace[HP], UnwindOps) = {}
       /\ holds[HP] = 0
       /\ (\A t \in Clients : ~opened[t]) => (wake = 1 /\ ~funcEnabled)

\* Probe has returned after a failed enable and no client has opened the
\* device yet.
C14_Witness ==
    /\ pc[HP] = "bound"
    /\ Failed(trace[HP], "sdio_enable_func")
    /\ ret[HP] = "0"
    /\ \A t \in Clients : ~opened[t]
    /\ wake = 1
    /\ ~funcEnabled

\* Probe is past its call of sdio_enable_func.
ProbeEnableDone ==
    pc[HP] \in {"p_release", "bound", "d_teardown", "d_claim", "d_disable",
                "d_release", "d_gpio0", "detached"}

\* C15: the character device is added and its node created only after probe
\* has called sdio_enable_func, so a client has the device open, or is
\* inside an ioctl, only after that call.
C15_EnableBeforePublish ==
    /\ (cdevLive \/ devNode) => ProbeEnableDone
    /\ \A t \in Clients : (opened[t] \/ pc[t] # "idle") => ProbeEnableDone

\* The steps of probe that set something up and succeeded, in order, and
\* the steps of probe that undo one of them, in order.
IsSetup(e) ==
    /\ e.ok
    /\ \/ e.op = "gpio" /\ e.v = 1
       \/ e.op \in {"alloc_chrdev_region", "cdev_add", "device_create"}
IsUndo(e) == (e.op = "gpio" /\ e.v = 0) \/ e.op \in UnwindOps
OpsOf(sel) == [i \in 1 .. Len(sel) |-> sel[i].op]
UndoOf(op) ==
    CASE op = "gpio" -> "gpio"
      [] op = "alloc_chrdev_region" -> "unregister_chrdev"
      [] op = "cdev_add" -> "cdev_del"
      [] op = "device_create" -> "device_destroy"
Reverse(sq) == [i \in 1 .. Len(sq) |-> sq[Len(sq) + 1 - i]]

DetachOrder ==
    << <<"cdev_del", FALSE>>, <<"unregister_chrdev", FALSE>>,
       <<"device_destroy", FALSE>>, <<"claim", FALSE>>,
       <<"sdio_disable_func", TRUE>>, <<"release", TRUE>>,
       <<"gpio", FALSE>> >>
HeldOps(tr) == [i \in 1 .. Len(tr) |-> <<tr[i].op, tr[i].held>>]

\* C17: a disconnect of a bound device deletes the cdev and destroys the
\* device node first, then claims the host, disables the function and
\* releases the host, and writes the wake line to 0 after the release; at
\* the step it returns with, the wake line is deasserted and the hotplug
\* thread does not hold the host.
C17_DetachOrder ==
    [][(pc[HP] = "d_gpio0" /\ pc'[HP] = "detached")
          => /\ HeldOps(trace'[HP]) = DetachOrder
             /\ trace'[HP][7].v = 0
             /\ ~cdevLive' /\ ~devNode'
             /\ wake' = 0
             /\ holds'[HP] = 0]_vars

\* A disconnect of a bound device has returned while a client that had
\* opened the device is inside an ioctl.
C17_Witness ==
    /\ pc[HP] = "detached"
    /\ Len(trace[HP]) = 7
    /\ \E t \in Clients : ~AtRest(t)

\* C18: with every step that does not wait for the host terminating and the
\* host granted fairly to its waiters, every ioctl that a client has
\* entered returns, and every thread that holds the host releases it.
C18_Termination ==
    /\ \A t \in Clients : (~AtRest(t)) ~> AtRest(t)
    /\ \A t \in Threads : (holds[t] > 0) ~> (holds[t] = 0)

\* Client c1 and the disconnect both wait for the host, which client c2
\* holds while it sleeps in a reset.
C18_Witness ==
    /\ pc["c1"] = "claim"
    /\ pc["c2"] = "r_sleeping"
    /\ pc[HP] = "d_claim"
    /\ holds["c2"] = 1

\* Thread t is in a reset, past its hardware reset and before the end of
\* its call of sdio_enable_func.
AfterHwReset(t) == pc[t] \in {"r_gpio1", "r_msleep", "r_sleeping", "r_enable"}

\* C19: a reset holds the host from before its hardware reset until after
\* its call of sdio_enable_func, the write of the wake line and the sleep
\* included, and between the two no other thread issues a bus primitive or
\* gets the host.
C19_ResetHoldsHost ==
    [][\A t \in Clients :
          /\ (pc[t] = "r_hwreset" \/ AfterHwReset(t) \/ pc[t] = "r_release")
                => holds[t] = 1
          /\ AfterHwReset(t)
                => /\ \A u \in Threads \ {t} :
                          ~BusOpBy(u) /\ holds[u] = 0 /\ holds'[u] = 0
                   /\ \A i \in 1 .. Len(trace[t]) :
                          trace[t][i].op \in {"mmc_hw_reset", "gpio", "msleep"}
                          => (trace[t][i].held <=> i > 1)]_vars

\* A client sleeps in a reset, after the hardware reset, while the other
\* client waits for the host with a data request.
C19_Witness ==
    \E t \in Clients : \E u \in Clients \ {t} :
        /\ pc[t] = "r_sleeping"
        /\ At(trace[t], {"mmc_hw_reset"}) # {}
        /\ pc[u] = "claim"

\* C20: once a disconnect of the device has returned, no client call takes
\* the host, issues a bus primitive or changes the wake line, and the line
\* stays deasserted.
C20_QuietAfterDetach ==
    [][pc[HP] = "detached"
          => /\ \A t \in Clients : holds'[t] <= holds[t] /\ ~BusOpBy(t)
             /\ wake' = wake
             /\ wake = 0]_vars

====
